---- MODULE Spec2Model ----
(***************************************************************************)
(* Placement legality and desirability predicates of the iCE40 back end    *)
(* (ice40/arch_place.cc): logicCellsCompatible, isBelLocationValid,        *)
(* scoreBelForCell and isValidBelForCell, over a bound-bel snapshot that   *)
(* the placer mutates.                                                     *)
(***************************************************************************)
EXTENDS Integers, Sequences, FiniteSets, TLC

VARIABLES cells, bound, call

vars == <<cells, bound, call>>

(***************************************************************************)
(* Nets.  A net is named by its identity; Null is nullptr.                 *)
(***************************************************************************)
Null == "null"

NetFlags ==
  [n \in {"N1", "N2", "G1", "RST", "EN", "RSTEN"} |->
     [is_global |-> (n = "G1"),
      is_reset  |-> (n \in {"RST", "RSTEN"}),
      is_enable |-> (n \in {"EN", "RSTEN"})]]

\* Largest inputCount of a logic cell of the netlist (a LUT4 has 4 inputs).
MaxInputCount == 4

\* Capacity of the occupant array bel_cells.
MaxTileCells == 8

\* The local-input budget of a tile.
MaxLocals == 32

(***************************************************************************)
(* Logic cells (lcInfo) offered to logicCellsCompatible.                   *)
(***************************************************************************)
DffCells ==
  [type : {"ICESTORM_LC"}, dffEnable : {TRUE}, negClk : BOOLEAN,
   cen : {Null, "N1"}, clk : {"N1", "G1"}, sr : {Null, "N2"},
   inputCount : {MaxInputCount}]

LutCells ==
  [type : {"ICESTORM_LC"}, dffEnable : {FALSE}, negClk : {FALSE},
   cen : {Null}, clk : {Null, "N2"}, sr : {Null},
   inputCount : {0, MaxInputCount}]

LogicCells == DffCells \cup LutCells

Range(s) == {s[i] : i \in 1..Len(s)}

\* The collections explored hold cells of at most two distinct lcInfo values.
KindsOK(s) == Cardinality(Range(s)) <= 2

NoCell == [type |-> "none"]

NoCall ==
  [op |-> "none", cell |-> NoCell, bel |-> "none", status |-> "none",
   bval |-> FALSE, ival |-> 0]

(***************************************************************************)
(* logicCellsCompatible                                                    *)
(***************************************************************************)
CountLocal_Always(net) == IF net # Null THEN 1 ELSE 0

\* One control slot of the first DFF cell: counted unless null or global.
CountLocal(net) == IF net # Null /\ ~NetFlags[net].is_global THEN 1 ELSE 0

LoopInit ==
  [dffs_exist |-> FALSE, dffs_neg |-> FALSE, cen |-> Null, clk |-> Null,
   sr |-> Null, locals_count |-> 0, pc |-> "loop"]

\* First DFF-using cell of the collection: record its control set.
FirstDff(st, cell) ==
  [st EXCEPT !.dffs_exist = TRUE,
             !.cen = cell.cen, !.clk = cell.clk, !.sr = cell.sr,
             !.locals_count = st.locals_count + CountLocal(cell.cen)
                              + CountLocal(cell.clk) + CountLocal(cell.sr),
             !.dffs_neg = cell.negClk]

NextDff_NoSr(st, cell) ==
  IF st.cen # cell.cen THEN [st EXCEPT !.pc = "false"]
  ELSE IF st.clk # cell.clk THEN [st EXCEPT !.pc = "false"]
  ELSE IF st.dffs_neg # cell.negClk THEN [st EXCEPT !.pc = "false"]
  ELSE st

\* Every later DFF-using cell: must match the recorded control set.
NextDff(st, cell) ==
  IF st.cen # cell.cen THEN [st EXCEPT !.pc = "false"]
  ELSE IF st.clk # cell.clk THEN [st EXCEPT !.pc = "false"]
  ELSE IF st.sr # cell.sr THEN [st EXCEPT !.pc = "false"]
  ELSE IF st.dffs_neg # cell.negClk THEN [st EXCEPT !.pc = "false"]
  ELSE st

AddInputs(st, cell) ==
  IF st.pc = "loop"
  THEN [st EXCEPT !.locals_count = st.locals_count + cell.inputCount]
  ELSE st

\* One iteration of the loop over the collection.
LCStep(st, cell) ==
  IF cell.type # "ICESTORM_LC" THEN [st EXCEPT !.pc = "abort"]
  ELSE IF cell.dffEnable
       THEN AddInputs(IF ~st.dffs_exist THEN FirstDff(st, cell)
                      ELSE NextDff(st, cell), cell)
       ELSE AddInputs(st, cell)

RECURSIVE LCLoop(_, _, _)
LCLoop(st, it, i) ==
  IF i > Len(it) \/ st.pc # "loop" THEN st
  ELSE LCLoop(LCStep(st, it[i]), it, i + 1)

\* Result: status "returned"/"abort", the boolean, and the budget compared
\* (locals_count; -1 when the loop returned early).
logicCellsCompatible(it) ==
  LET st == LCLoop(LoopInit, it, 1) IN
  IF st.pc = "abort" THEN [status |-> "abort", bval |-> FALSE, ival |-> -1]
  ELSE IF st.pc = "false"
       THEN [status |-> "returned", bval |-> FALSE, ival |-> -1]
       ELSE [status |-> "returned", bval |-> (st.locals_count <= MaxLocals),
             ival |-> st.locals_count]

(***************************************************************************)
(* The fabric: one logic tile of eight logic bels, two IO tiles of two IO  *)
(* bels each, two PLL bels and two global buffer bels.                     *)
(***************************************************************************)
AllBels ==
  << "L0", "L1", "L2", "L3", "L4", "L5", "L6", "L7",
     "IO0", "IO1", "IO2", "IO3", "P1", "P2", "GB0", "GB1" >>

Bels == Range(AllBels)

LogicBels == {"L0", "L1", "L2", "L3", "L4", "L5", "L6", "L7"}
IOBels == {"IO0", "IO1", "IO2", "IO3"}
PLLBels == {"P1", "P2"}
GBBels == {"GB0", "GB1"}

getBelType ==
  [b \in Bels |->
     IF b \in LogicBels THEN "ICESTORM_LC"
     ELSE IF b \in IOBels THEN "SB_IO"
     ELSE IF b \in GBBels THEN "SB_GB"
     ELSE "ICESTORM_PLL"]

getBelLocation ==
  [b \in Bels |->
     CASE b = "L0" -> [x |-> 1, y |-> 1, z |-> 0]
       [] b = "L1" -> [x |-> 1, y |-> 1, z |-> 1]
       [] b = "L2" -> [x |-> 1, y |-> 1, z |-> 2]
       [] b = "L3" -> [x |-> 1, y |-> 1, z |-> 3]
       [] b = "L4" -> [x |-> 1, y |-> 1, z |-> 4]
       [] b = "L5" -> [x |-> 1, y |-> 1, z |-> 5]
       [] b = "L6" -> [x |-> 1, y |-> 1, z |-> 6]
       [] b = "L7" -> [x |-> 1, y |-> 1, z |-> 7]
       [] b = "IO0" -> [x |-> 0, y |-> 1, z |-> 0]
       [] b = "IO1" -> [x |-> 0, y |-> 1, z |-> 1]
       [] b = "IO2" -> [x |-> 0, y |-> 2, z |-> 0]
       [] b = "IO3" -> [x |-> 0, y |-> 2, z |-> 1]
       [] b = "P1" -> [x |-> 0, y |-> 0, z |-> 0]
       [] b = "P2" -> [x |-> 0, y |-> 0, z |-> 1]
       [] b = "GB0" -> [x |-> 2, y |-> 0, z |-> 0]
       [] b = "GB1" -> [x |-> 2, y |-> 3, z |-> 0]]

getBelByLocation(loc) == CHOOSE b \in Bels : getBelLocation[b] = loc

\* The bels of tile (x, y), in the order of the chip database.
getBelsByTile(x, y) ==
  SelectSeq(AllBels,
            LAMBDA b : getBelLocation[b].x = x /\ getBelLocation[b].y = y)

\* IO2 is not bonded out in the package.
getBelPackagePin ==
  [b \in Bels |->
     CASE b = "IO0" -> "A1" [] b = "IO1" -> "A2" [] b = "IO3" -> "B2"
       [] OTHER -> ""]

\* The bel pins on the wire of bel's D_IN_0 pin.
getWireBelPins ==
  [b \in IOBels |->
     CASE b = "IO0" -> << [bel |-> "IO0", pin |-> "D_IN_0"],
                          [bel |-> "P1", pin |-> "PLLOUT_A"],
                          [bel |-> "P2", pin |-> "PLLOUT_B"] >>
       [] b = "IO1" -> << [bel |-> "IO1", pin |-> "D_IN_0"],
                          [bel |-> "P1", pin |-> "PLLOUT_B"] >>
       [] b = "IO2" -> << [bel |-> "IO2", pin |-> "D_IN_0"] >>
       [] b = "IO3" -> << [bel |-> "IO3", pin |-> "D_IN_0"] >>]

getDrivenGlobalNetwork == [b \in GBBels |-> IF b = "GB0" THEN 6 ELSE 3]

getBoundBelCell(bnd, b) == bnd[b]

IsBound(bnd, b) == bnd[b].type # "none"

Ret(status, bval, ival) == [status |-> status, bval |-> bval, ival |-> ival]

RetBool(b) == Ret("returned", b, 0)

\* The cells bound in bel's tile, in tile order (bel's own cell included).
TileCells(bnd, bel) ==
  LET loc == getBelLocation[bel]
      occ == SelectSeq(getBelsByTile(loc.x, loc.y),
                       LAMBDA o : IsBound(bnd, o))
  IN [i \in 1..Len(occ) |-> getBoundBelCell(bnd, occ[i])]

OtherTileBels_All(bnd, bel) ==
  LET loc == getBelLocation[bel] IN
  SelectSeq(getBelsByTile(loc.x, loc.y), LAMBDA o : IsBound(bnd, o))

\* The bound bels of bel's tile other than bel itself.
OtherTileBels(bnd, bel) ==
  LET loc == getBelLocation[bel] IN
  SelectSeq(getBelsByTile(loc.x, loc.y),
            LAMBDA o : IsBound(bnd, o) /\ o # bel)

OtherTileCells(bnd, bel) ==
  LET occ == OtherTileBels(bnd, bel) IN
  [i \in 1..Len(occ) |-> getBoundBelCell(bnd, occ[i])]

\* Number of cells isValidBelForCell writes into its occupant array.
GatheredForCell(bnd, bel) == Len(OtherTileBels(bnd, bel)) + 1

\* Number of cells isBelLocationValid writes into its occupant array.
GatheredForBel(bnd, bel) == Len(TileCells(bnd, bel))

(***************************************************************************)
(* scoreBelForCell                                                         *)
(***************************************************************************)
scoreBelForCell(bnd, cell, bel) ==
  IF cell.type # "ICESTORM_LC" THEN Ret("returned", FALSE, 0)
  ELSE IF getBelType[bel] # "ICESTORM_LC" THEN Ret("abort", FALSE, 0)
  ELSE IF ~cell.dffEnable THEN Ret("returned", FALSE, 8)
  ELSE Ret("returned", FALSE, 8 - Len(OtherTileBels(bnd, bel)))

(***************************************************************************)
(* Pin type classification of an SB_IO                                     *)
(***************************************************************************)
RECURSIVE BitAnd(_, _)
BitAnd(a, b) ==
  IF a = 0 \/ b = 0 THEN 0
  ELSE (a % 2) * (b % 2) + 2 * BitAnd(a \div 2, b \div 2)

_io_pintype_need_clk_in(pin_type) == BitAnd(pin_type, 1) = 0

_io_pintype_need_clk_out(pin_type) ==
  \/ BitAnd(pin_type, 48) = 48
  \/ (BitAnd(pin_type, 60) # 0 /\ BitAnd(pin_type, 12) # 8)

_io_pintype_need_clk_en(pin_type) ==
  _io_pintype_need_clk_in(pin_type) \/ _io_pintype_need_clk_out(pin_type)

(***************************************************************************)
(* isValidBelForCell                                                       *)
(***************************************************************************)
\* util.h: the PLL cell is one of the two-output (dual) PLL types.
is_sb_pll40_dual(pll_cell) == pll_cell.dual

\* Body of the loop for a bel pin that is a PLL clock output: "break"
\* leaves the loop, "true"/"false" return from isValidBelForCell.
PllPin(bnd, cell, bel, pin) ==
  LET pll_cell == getBoundBelCell(bnd, pin.bel) IN
  IF pll_cell.type = "none" THEN "break"
  ELSE IF pin.pin = "PLLOUT_B" /\ ~is_sb_pll40_dual(pll_cell) THEN "break"
  ELSE IF cell.din0 = Null /\ cell.din1 = Null THEN "break"
  ELSE IF pll_cell.padInput = bel THEN "true"
  ELSE "false"

\* The loop over the bel pins of the wire of bel's D_IN_0.
RECURSIVE PllScan(_, _, _, _, _)
PllScan(bnd, cell, bel, pins, i) ==
  IF i > Len(pins) THEN "break"
  ELSE IF pins[i].pin \in {"PLLOUT_A", "PLLOUT_B"}
       THEN PllPin(bnd, cell, bel, pins[i])
       ELSE PllScan(bnd, cell, bel, pins, i + 1)

Xor1(i) == IF i % 2 = 0 THEN i + 1 ELSE i - 1

SharedNetConflict_NoOut(cell, compCell) ==
  LET use == [i \in 0..5 |->
                CASE i = 0 -> _io_pintype_need_clk_in(cell.pintype)
                  [] i = 1 -> _io_pintype_need_clk_in(compCell.pintype)
                  [] i = 2 -> FALSE
                  [] i = 3 -> FALSE
                  [] i = 4 -> _io_pintype_need_clk_en(cell.pintype)
                  [] i = 5 -> _io_pintype_need_clk_en(compCell.pintype)]
      nets == [i \in 0..5 |->
                 CASE i = 0 -> cell.inclk  [] i = 1 -> compCell.inclk
                   [] i = 2 -> cell.outclk [] i = 3 -> compCell.outclk
                   [] i = 4 -> cell.clken  [] i = 5 -> compCell.clken]
  IN \E i \in 0..5 :
       /\ use[i]
       /\ nets[i] # nets[Xor1(i)]
       /\ (use[Xor1(i)] \/ nets[Xor1(i)] # Null)

\* Conflicts on the nets shared by the two IO bels of a tile.
SharedNetConflict(cell, compCell) ==
  LET use == [i \in 0..5 |->
                CASE i = 0 -> _io_pintype_need_clk_in(cell.pintype)
                  [] i = 1 -> _io_pintype_need_clk_in(compCell.pintype)
                  [] i = 2 -> _io_pintype_need_clk_out(cell.pintype)
                  [] i = 3 -> _io_pintype_need_clk_out(compCell.pintype)
                  [] i = 4 -> _io_pintype_need_clk_en(cell.pintype)
                  [] i = 5 -> _io_pintype_need_clk_en(compCell.pintype)]
      nets == [i \in 0..5 |->
                 CASE i = 0 -> cell.inclk  [] i = 1 -> compCell.inclk
                   [] i = 2 -> cell.outclk [] i = 3 -> compCell.outclk
                   [] i = 4 -> cell.clken  [] i = 5 -> compCell.clken]
  IN \E i \in 0..5 :
       /\ use[i]
       /\ nets[i] # nets[Xor1(i)]
       /\ (use[Xor1(i)] \/ nets[Xor1(i)] # Null)

IoPairing_AnyZ(bnd, cell, bel) ==
  LET ioLoc == getBelLocation[bel]
      compLoc == [ioLoc EXCEPT !.z = 1 - ioLoc.z]
      compCell == getBoundBelCell(bnd, getBelByLocation(compLoc))
  IN IF cell.lvds
     THEN IF compCell.type # "none" THEN RetBool(FALSE)
          ELSE RetBool(getBelPackagePin[bel] # "")
     ELSE IF compCell.type # "none" /\ compCell.lvds THEN RetBool(FALSE)
          ELSE IF compCell.type # "none" /\ SharedNetConflict(cell, compCell)
               THEN RetBool(FALSE)
               ELSE RetBool(getBelPackagePin[bel] # "")

\* LVDS pairing, shared nets and package pin of an SB_IO.
IoPairing(bnd, cell, bel) ==
  LET ioLoc == getBelLocation[bel]
      compLoc == [ioLoc EXCEPT !.z = 1 - ioLoc.z]
      compCell == getBoundBelCell(bnd, getBelByLocation(compLoc))
  IN IF cell.lvds
     THEN IF ioLoc.z # 0 THEN RetBool(FALSE)
          ELSE IF compCell.type # "none" THEN RetBool(FALSE)
               ELSE RetBool(getBelPackagePin[bel] # "")
     ELSE IF compCell.type # "none" /\ compCell.lvds THEN RetBool(FALSE)
          ELSE IF compCell.type # "none" /\ SharedNetConflict(cell, compCell)
               THEN RetBool(FALSE)
               ELSE RetBool(getBelPackagePin[bel] # "")

IoValid(bnd, cell, bel) ==
  LET scan == PllScan(bnd, cell, bel, getWireBelPins[bel], 1) IN
  IF scan = "true" THEN RetBool(TRUE)
  ELSE IF scan = "false" THEN RetBool(FALSE)
  ELSE IoPairing(bnd, cell, bel)

GbValid_Swapped(cell, bel) ==
  IF cell.forPadIn THEN RetBool(TRUE)
  ELSE IF cell.gbout = Null THEN Ret("abort", FALSE, 0)
  ELSE LET net == NetFlags[cell.gbout]
           glb_id == getDrivenGlobalNetwork[bel]
       IN IF net.is_reset /\ net.is_enable THEN RetBool(FALSE)
          ELSE IF net.is_reset THEN RetBool((glb_id % 2) = 1)
          ELSE IF net.is_enable THEN RetBool((glb_id % 2) = 0)
          ELSE RetBool(TRUE)

GbValid_NoAssert(cell, bel) ==
  IF cell.forPadIn THEN RetBool(TRUE)
  ELSE IF cell.gbout = Null THEN RetBool(FALSE)
  ELSE LET net == NetFlags[cell.gbout]
           glb_id == getDrivenGlobalNetwork[bel]
       IN IF net.is_reset /\ net.is_enable THEN RetBool(FALSE)
          ELSE IF net.is_reset THEN RetBool((glb_id % 2) = 0)
          ELSE IF net.is_enable THEN RetBool((glb_id % 2) = 1)
          ELSE RetBool(TRUE)

\* The SB_GB branch.
GbValid(cell, bel) ==
  IF cell.forPadIn THEN RetBool(TRUE)
  ELSE IF cell.gbout = Null THEN Ret("abort", FALSE, 0)
  ELSE LET net == NetFlags[cell.gbout]
           glb_id == getDrivenGlobalNetwork[bel]
       IN IF net.is_reset /\ net.is_enable THEN RetBool(FALSE)
          ELSE IF net.is_reset THEN RetBool((glb_id % 2) = 0)
          ELSE IF net.is_enable THEN RetBool((glb_id % 2) = 1)
          ELSE RetBool(TRUE)

LcValid_CountSelf(bnd, cell, bel) ==
  IF getBelType[bel] # "ICESTORM_LC" THEN Ret("abort", FALSE, 0)
  ELSE IF Len(OtherTileBels_All(bnd, bel)) + 1 > MaxTileCells
       THEN Ret("overflow", FALSE, 0)
       ELSE logicCellsCompatible(Append(TileCells(bnd, bel), cell))

\* The ICESTORM_LC branch: the other occupants of the tile, then cell.
LcValid(bnd, cell, bel) ==
  IF getBelType[bel] # "ICESTORM_LC" THEN Ret("abort", FALSE, 0)
  ELSE IF GatheredForCell(bnd, bel) > MaxTileCells
       THEN Ret("overflow", FALSE, 0)
       ELSE logicCellsCompatible(Append(OtherTileCells(bnd, bel), cell))

isValidBelForCell(bnd, cell, bel) ==
  IF cell.type = "ICESTORM_LC" THEN LcValid(bnd, cell, bel)
  ELSE IF cell.type = "SB_IO" THEN IoValid(bnd, cell, bel)
  ELSE IF cell.type = "SB_GB" THEN GbValid(cell, bel)
  ELSE RetBool(TRUE)

(***************************************************************************)
(* isBelLocationValid                                                      *)
(***************************************************************************)
isBelLocationValid_Unbound(bnd, bel) ==
  IF ~IsBound(bnd, bel) THEN RetBool(TRUE)
  ELSE IF getBelType[bel] = "ICESTORM_LC"
  THEN logicCellsCompatible(TileCells(bnd, bel))
  ELSE isValidBelForCell(bnd, getBoundBelCell(bnd, bel), bel)

isBelLocationValid(bnd, bel) ==
  IF getBelType[bel] = "ICESTORM_LC"
  THEN IF GatheredForBel(bnd, bel) > MaxTileCells
       THEN Ret("overflow", FALSE, 0)
       ELSE logicCellsCompatible(TileCells(bnd, bel))
  ELSE LET ci == getBoundBelCell(bnd, bel) IN
       IF ci.type = "none" THEN RetBool(TRUE)
       ELSE isValidBelForCell(bnd, ci, bel)

(***************************************************************************)
(* The netlist: the cells the placer works with in each scenario.          *)
(***************************************************************************)
LcCell(dff, neg, cen, clk, sr, n) ==
  [type |-> "ICESTORM_LC", dffEnable |-> dff, negClk |-> neg, cen |-> cen,
   clk |-> clk, sr |-> sr, inputCount |-> n]

LcA == LcCell(TRUE, FALSE, Null, "N1", Null, MaxInputCount)
LcB == LcCell(TRUE, FALSE, Null, "G1", Null, MaxInputCount)
LcLut == LcCell(FALSE, FALSE, Null, Null, Null, MaxInputCount)
LcLut0 == LcCell(FALSE, FALSE, Null, Null, Null, 0)

GBCells ==
  [type : {"SB_GB"}, forPadIn : BOOLEAN,
   gbout : {Null, "N1", "RST", "EN", "RSTEN"}]

GbEn == [type |-> "SB_GB", forPadIn |-> FALSE, gbout |-> "EN"]

PLLCells ==
  { [type |-> "ICESTORM_PLL", dual |-> FALSE, padInput |-> "IO0"],
    [type |-> "ICESTORM_PLL", dual |-> TRUE, padInput |-> "IO1"],
    [type |-> "ICESTORM_PLL", dual |-> TRUE, padInput |-> ""] }

IoCell(lvds, pt, din0, inclk, outclk, clken) ==
  [type |-> "SB_IO", lvds |-> lvds, pintype |-> pt, din0 |-> din0,
   din1 |-> Null, inclk |-> inclk, outclk |-> outclk, clken |-> clken]

\* IO cells already placed by the search.
IOPlaced ==
  { IoCell(TRUE, 1, Null, Null, Null, Null),
    IoCell(FALSE, 5, Null, Null, "N1", "N1"),
    IoCell(FALSE, 1, Null, "N1", Null, "N2") }

\* IO cells the search asks about.
IOProbes ==
  { IoCell(TRUE, 1, d, Null, Null, Null) : d \in {Null, "N1"} }
  \cup
  [type : {"SB_IO"}, lvds : {FALSE}, pintype : {0, 1, 5, 9, 41, 57},
   din0 : {Null, "N1"}, din1 : {Null}, inclk : {Null, "N1"},
   outclk : {Null, "N1", "N2"}, clken : {"N1"}]

(***************************************************************************)
(* Operations of the placer on the snapshot, and its queries.              *)
(***************************************************************************)
\* The placer is between two queries.
Idle == call.op = "none"

Called(op, cell, bel, r) ==
  [op |-> op, cell |-> cell, bel |-> bel, status |-> r.status,
   bval |-> r.bval, ival |-> r.ival]

AddCell(p) ==
  /\ Idle
  /\ Len(cells) < MaxTileCells
  /\ KindsOK(Append(cells, p))
  /\ cells' = Append(cells, p)
  /\ call' = NoCall
  /\ UNCHANGED bound

CallLogicCellsCompatible ==
  /\ Idle
  /\ call' = Called("logicCellsCompatible", NoCell, "none",
                    logicCellsCompatible(cells))
  /\ UNCHANGED <<cells, bound>>

bindBel(c, b) ==
  /\ Idle
  /\ ~IsBound(bound, b)
  /\ getBelType[b] = c.type
  /\ bound' = [bound EXCEPT ![b] = c]
  /\ call' = NoCall
  /\ UNCHANGED cells

\* A cell of the netlist is bound to at most one bel.
bindBelOnce(c, b) ==
  /\ \A o \in Bels : bound[o] # c
  /\ bindBel(c, b)

unbindBel(b) ==
  /\ Idle
  /\ IsBound(bound, b)
  /\ bound' = [bound EXCEPT ![b] = NoCell]
  /\ call' = NoCall
  /\ UNCHANGED cells

CallIsValidBelForCell(c, b) ==
  /\ Idle
  /\ getBelType[b] = c.type
  /\ call' = Called("isValidBelForCell", c, b, isValidBelForCell(bound, c, b))
  /\ UNCHANGED <<cells, bound>>

CallIsBelLocationValid(b) ==
  /\ Idle
  /\ call' = Called("isBelLocationValid", NoCell, b,
                    isBelLocationValid(bound, b))
  /\ UNCHANGED <<cells, bound>>

CallScoreBelForCell(c, b) ==
  /\ Idle
  /\ getBelType[b] = c.type
  /\ call' = Called("scoreBelForCell", c, b, scoreBelForCell(bound, c, b))
  /\ UNCHANGED <<cells, bound>>

\* A search move: bind cell to a free bel only if the query accepts it.
PlaceCell(c, b) ==
  /\ Idle
  /\ ~IsBound(bound, b)
  /\ getBelType[b] = c.type
  /\ LET r == isValidBelForCell(bound, c, b) IN
       /\ call' = Called("isValidBelForCell", c, b, r)
       /\ bound' = IF r.status = "returned" /\ r.bval
                    THEN [bound EXCEPT ![b] = c] ELSE bound
  /\ UNCHANGED cells

\* The placer takes the value a query returned; a failed assertion ends
\* the run.
Resume ==
  /\ call.status = "returned"
  /\ call' = NoCall
  /\ UNCHANGED <<cells, bound>>

Init ==
  /\ cells = << >>
  /\ bound = [b \in Bels |-> NoCell]
  /\ call = NoCall

\* logicCellsCompatible on collections of 0 to 8 logic cells.
NextLC ==
  \/ Resume
  \/ \E p \in LogicCells : AddCell(p)
  \/ CallLogicCellsCompatible

SpecLC == Init /\ [][NextLC]_vars

\* isBelLocationValid on arbitrary snapshots of the logic tile and GB0.
NextLoc ==
  \/ Resume
  \/ \E b \in LogicBels, c \in {LcA, LcB} : bindBel(c, b)
  \/ bindBel(GbEn, "GB0")
  \/ \E b \in LogicBels \cup {"GB0"} : unbindBel(b)
  \/ \E b \in LogicBels \cup {"GB0"} : CallIsBelLocationValid(b)

SpecLoc == Init /\ [][NextLoc]_vars

\* scoreBelForCell on arbitrary snapshots of the logic tile.
NextScore ==
  \/ Resume
  \/ \E b \in LogicBels, c \in {LcA, LcB} : bindBel(c, b)
  \/ \E b \in LogicBels : unbindBel(b)
  \/ \E b \in LogicBels \cup GBBels, c \in {LcA, LcLut, GbEn} :
        CallScoreBelForCell(c, b)

SpecScore == Init /\ [][NextScore]_vars

\* A search that binds a logic cell only where isValidBelForCell accepts.
NextSearch ==
  \/ Resume
  \/ \E b \in LogicBels, c \in {LcA, LcB, LcLut0} : PlaceCell(c, b)
  \/ \E b \in LogicBels : unbindBel(b)

SpecSearch == Init /\ [][NextSearch]_vars

\* isValidBelForCell for SB_IO cells on snapshots of the IO and PLL bels.
NextIO ==
  \/ Resume
  \/ \E b \in IOBels, c \in IOPlaced : bindBelOnce(c, b)
  \/ \E b \in PLLBels, c \in PLLCells : bindBelOnce(c, b)
  \/ \E b \in IOBels \cup PLLBels : unbindBel(b)
  \/ \E b \in IOBels, c \in IOProbes : CallIsValidBelForCell(c, b)

SpecIO == Init /\ [][NextIO]_vars

\* The three queries for SB_GB cells on snapshots of the global buffers.
NextGB ==
  \/ Resume
  \/ \E b \in GBBels, c \in GBCells : bindBel(c, b)
  \/ \E b \in GBBels : unbindBel(b)
  \/ \E b \in GBBels, c \in GBCells : CallIsValidBelForCell(c, b)
  \/ \E b \in GBBels : CallIsBelLocationValid(b)
  \/ \E b \in GBBels, c \in GBCells : CallScoreBelForCell(c, b)

SpecGB == Init /\ [][NextGB]_vars

\* The three queries for cells of every type, on bels of the cell's type.
NextAny ==
  \/ NextGB
  \/ \E b \in {"L0", "L7"}, c \in {LcA, LcLut} : CallIsValidBelForCell(c, b)
  \/ \E b \in {"L0", "L7"}, c \in {LcA, LcLut} : CallScoreBelForCell(c, b)
  \/ \E b \in {"IO0", "IO3"}, c \in IOPlaced : CallIsValidBelForCell(c, b)
  \/ \E b \in {"L0", "IO0", "P1"} : CallIsBelLocationValid(b)

SpecAny == Init /\ [][NextAny]_vars

(***************************************************************************)
(* Properties of logicCellsCompatible (SpecLC)                             *)
(***************************************************************************)
RECURSIVE SumInputs(_)
SumInputs(s) ==
  IF s = << >> THEN 0 ELSE s[1].inputCount + SumInputs(Tail(s))

DffIdx == {i \in 1..Len(cells) : cells[i].dffEnable}

Ctl(c) == <<c.cen, c.clk, c.sr, c.negClk>>

DffDisagree == \E i, j \in DffIdx : Ctl(cells[i]) # Ctl(cells[j])

IsLocalNet(n) == n # Null /\ ~NetFlags[n].is_global

\* Control slots of the DFF-using cells that hold a non-global net.
LocalSlots ==
  IF DffIdx = {} THEN 0
  ELSE LET c == cells[CHOOSE i \in DffIdx : TRUE] IN
       Cardinality({k \in 1..3 : IsLocalNet(Ctl(c)[k])})

\* Distinct non-global nets among the control nets of the DFF-using cells.
DistinctLocalNets ==
  {n \in UNION {{cells[i].cen, cells[i].clk, cells[i].sr} : i \in DffIdx} :
     IsLocalNet(n)}

SwapAt(s, i) == [s EXCEPT ![i] = s[i + 1], ![i + 1] = s[i]]

RECURSIVE SumOver(_, _)
SumOver(S, bnd) ==
  IF S = {} THEN 0
  ELSE LET b == CHOOSE x \in S : TRUE IN
       bnd[b].inputCount + SumOver(S \ {b}, bnd)

TileOf(bel) ==
  {o \in Bels : getBelLocation[o].x = getBelLocation[bel].x
                /\ getBelLocation[o].y = getBelLocation[bel].y}

Occupied(bel) == {o \in TileOf(bel) : IsBound(bound, o)}

DffBels(bel) == {o \in Occupied(bel) : bound[o].dffEnable}

\* The occupants of bel's tile can share the tile.
OccupantsCompatible(bel) ==
  /\ \A o1, o2 \in DffBels(bel) : Ctl(bound[o1]) = Ctl(bound[o2])
  /\ SumOver(Occupied(bel), bound)
       + (IF DffBels(bel) = {} THEN 0
          ELSE LET c == bound[CHOOSE o \in DffBels(bel) : TRUE] IN
               Cardinality({k \in 1..3 : IsLocalNet(Ctl(c)[k])})) <= 32

\* C3 as stated: isBelLocationValid returns true for every unbound bel.
C3_UnboundValid ==
  (call.op = "isBelLocationValid" /\ ~IsBound(bound, call.bel)) =>
    (call.status = "returned" /\ call.bval)

\* C3 amended: isBelLocationValid returns true for every unbound bel that
\* is not a logic bel; for an unbound logic bel it returns true iff the
\* cells bound to the other bels of its tile are compatible.
C3_UnboundByType ==
  (call.op = "isBelLocationValid" /\ ~IsBound(bound, call.bel)) =>
    /\ call.status = "returned"
    /\ getBelType[call.bel] # "ICESTORM_LC" => call.bval
    /\ getBelType[call.bel] = "ICESTORM_LC" =>
          (call.bval <=> OccupantsCompatible(call.bel))

C3_Witness ==
  /\ call.op = "isBelLocationValid"
  /\ ~IsBound(bound, call.bel)
  /\ getBelType[call.bel] = "ICESTORM_LC"
  /\ Cardinality(Occupied(call.bel)) = 2
  /\ ~call.bval

(***************************************************************************)
(* Properties of scoreBelForCell (SpecScore)                               *)
(***************************************************************************)
Siblings(bel) == Occupied(bel) \ {bel}

\* C7: scoreBelForCell returns 0 for a non-logic cell, 8 for a logic cell
\* without DFF, and for a DFF-using logic cell 8 minus the number of bound
\* bels of the tile other than bel: within 1..8, and lower by exactly 1
\* once one more sibling bel is bound.
C7_Score ==
  call.op = "scoreBelForCell" =>
    /\ call.status = "returned"
    /\ call.cell.type # "ICESTORM_LC" => call.ival = 0
    /\ (call.cell.type = "ICESTORM_LC" /\ ~call.cell.dffEnable) =>
          call.ival = 8
    /\ (call.cell.type = "ICESTORM_LC" /\ call.cell.dffEnable) =>
          /\ call.ival = 8 - Cardinality(Siblings(call.bel))
          /\ call.ival \in 1..8
          /\ \A o \in TileOf(call.bel) \ (Occupied(call.bel) \cup {call.bel}) :
                scoreBelForCell([bound EXCEPT ![o] = LcA], call.cell,
                                call.bel).ival = call.ival - 1

C7_Witness ==
  /\ call.op = "scoreBelForCell"
  /\ call.cell.type = "ICESTORM_LC"
  /\ call.cell.dffEnable
  /\ IsBound(bound, call.bel)
  /\ Cardinality(Siblings(call.bel)) = 7
  /\ call.ival = 1

(***************************************************************************)
(* The validated search on one logic tile (SpecSearch)                     *)
(***************************************************************************)
\* C10: when cells are bound only where isValidBelForCell accepted, and
\* unbound at any time, isBelLocationValid holds of every bel of the tile,
\* isValidBelForCell holds of every bound pair, and no query gathers more
\* than 8 cells.
C10_SearchInvariant ==
  /\ call.status \in {"none", "returned"}
  /\ \A b \in LogicBels :
       /\ GatheredForBel(bound, b) <= 8
       /\ GatheredForCell(bound, b) <= 8
       /\ LET r == isBelLocationValid(bound, b) IN
            r.status = "returned" /\ r.bval
       /\ IsBound(bound, b) =>
            LET r == isValidBelForCell(bound, bound[b], b) IN
            r.status = "returned" /\ r.bval

C10_Witness ==
  /\ \A b \in LogicBels : IsBound(bound, b)
  /\ \E b \in LogicBels : bound[b] = LcB
  /\ call.op = "isValidBelForCell"
  /\ call.bval

(***************************************************************************)
(* Properties of the SB_GB branch (SpecGB, SpecAny)                        *)
(***************************************************************************)
GbQuery ==
  /\ call.op = "isValidBelForCell"
  /\ call.cell.type = "SB_GB"
  /\ call.cell.gbout # Null

GbNet == NetFlags[call.cell.gbout]

GbParity ==
  /\ (GbNet.is_reset /\ GbNet.is_enable) => ~call.bval
  /\ (GbNet.is_reset /\ ~GbNet.is_enable /\ call.bval) =>
        getDrivenGlobalNetwork[call.bel] % 2 = 0
  /\ (GbNet.is_enable /\ ~GbNet.is_reset /\ call.bval) =>
        getDrivenGlobalNetwork[call.bel] % 2 = 1

\* C6 as stated: for every global buffer cell, a net that is both reset and
\* enable is rejected, a reset net is accepted only on an even global
\* network and an enable net only on an odd one.
C6_EveryGb == GbQuery => GbParity

\* C6 amended: the same for every global buffer cell with forPadIn false;
\* a cell with forPadIn true is accepted on every bel, whatever its net.
C6_NotForPadIn ==
  GbQuery => IF call.cell.forPadIn THEN call.bval ELSE GbParity

C6_Witness ==
  /\ GbQuery
  /\ ~call.cell.forPadIn
  /\ GbNet.is_enable /\ ~GbNet.is_reset
  /\ call.bval

\* The cell the query hands to the SB_GB branch, if any.
GbExamined ==
  IF call.op = "isValidBelForCell" THEN call.cell
  ELSE IF call.op = "isBelLocationValid" THEN bound[call.bel]
  ELSE NoCell

NetlessGb(c) == c.type = "SB_GB" /\ ~c.forPadIn /\ c.gbout = Null

\* C9 as stated: no query on a cell and a bel of its type ends in a failed
\* assertion.
C9_NeverAborts == call.status \in {"none", "returned"}

\* C9 amended: a query on a cell and a bel of its type returns a value,
\* except that isValidBelForCell on a global buffer cell with forPadIn false
\* and no net on its output, called directly or by isBelLocationValid on the
\* bel that cell is bound to, fails its assertion.
C9_AbortsOnlyNetlessGb ==
  call.op # "none" =>
    /\ call.status \in {"returned", "abort"}
    /\ call.status = "abort" <=> NetlessGb(GbExamined)

C9_Witness ==
  /\ call.op = "isBelLocationValid"
  /\ NetlessGb(bound[call.bel])
  /\ call.status = "abort"

(***************************************************************************)
(* Properties of the SB_IO branch (SpecIO)                                 *)
(***************************************************************************)
IoQuery == call.op = "isValidBelForCell" /\ call.cell.type = "SB_IO"

CompBel(bel) ==
  CHOOSE o \in TileOf(bel) \ {bel} : getBelType[o] = "SB_IO"

ReadsInput(c) == c.din0 # Null \/ c.din1 # Null

PllPins(bel) ==
  {i \in 1..Len(getWireBelPins[bel]) :
     getWireBelPins[bel][i].pin \in {"PLLOUT_A", "PLLOUT_B"}}

\* The PLL output on pin i of bel's D_IN_0 wire is driven by a bound cell.
PllOutputUsed(bel, i) ==
  LET pin == getWireBelPins[bel][i] IN
  /\ i \in PllPins(bel)
  /\ IsBound(bound, pin.bel)
  /\ (pin.pin = "PLLOUT_A" \/ bound[pin.bel].dual)

NamesBel(bel, i) == bound[getWireBelPins[bel][i].bel].padInput = bel

FirstPllPin(bel) == CHOOSE i \in PllPins(bel) : \A j \in PllPins(bel) : i <= j

\* The first PLL output pin of the wire settles the query.
PllDecides(c, bel) ==
  /\ PllPins(bel) # {}
  /\ PllOutputUsed(bel, FirstPllPin(bel))
  /\ ReadsInput(c)

Bit(n, k) == (n \div (2 ^ k)) % 2 = 1

NeedsIn(pt) == ~Bit(pt, 0)

NeedsOut(pt) ==
  \/ (Bit(pt, 4) /\ Bit(pt, 5))
  \/ /\ (Bit(pt, 2) \/ Bit(pt, 3) \/ Bit(pt, 4) \/ Bit(pt, 5))
     /\ ~(Bit(pt, 3) /\ ~Bit(pt, 2))

NeedsClass(k, pt) ==
  CASE k = "inclk" -> NeedsIn(pt)
    [] k = "outclk" -> NeedsOut(pt)
    [] k = "clken" -> NeedsIn(pt) \/ NeedsOut(pt)

NetMismatch(c, o) ==
  \E k \in {"inclk", "outclk", "clken"} :
    \E p \in {<<c, o>>, <<o, c>>} :
      /\ NeedsClass(k, p[1].pintype)
      /\ p[1][k] # p[2][k]
      /\ ~(~NeedsClass(k, p[2].pintype) /\ p[2][k] = Null)

\* C4 as stated: an LVDS cell is rejected on every bel with z = 1, and on a
\* bel with z = 0 it is rejected iff the paired bel is bound.
C4_LvdsAlways ==
  (IoQuery /\ call.cell.lvds) =>
    /\ getBelLocation[call.bel].z = 1 => ~call.bval
    /\ getBelLocation[call.bel].z = 0 =>
          (~call.bval <=> IsBound(bound, CompBel(call.bel)))

\* C4 amended: when no PLL output pin settles the query, an LVDS cell is
\* rejected on every bel with z = 1, and on a bel with z = 0 it is rejected
\* iff the paired bel is bound or bel has no package pin; when the first PLL
\* output pin of the wire is in use and the cell reads input data, it is
\* accepted iff that PLL cell's BEL_PAD_INPUT names bel.
C4_LvdsAfterPll ==
  (IoQuery /\ call.cell.lvds) =>
    IF PllDecides(call.cell, call.bel)
    THEN call.bval <=> NamesBel(call.bel, FirstPllPin(call.bel))
    ELSE /\ getBelLocation[call.bel].z = 1 => ~call.bval
         /\ getBelLocation[call.bel].z = 0 =>
               (~call.bval <=> (\/ IsBound(bound, CompBel(call.bel))
                                \/ getBelPackagePin[call.bel] = ""))

C4_Witness ==
  /\ IoQuery
  /\ call.cell.lvds
  /\ ~PllDecides(call.cell, call.bel)
  /\ IsBound(bound, "P1")
  /\ getBelLocation[call.bel].z = 0
  /\ ~IsBound(bound, CompBel(call.bel))
  /\ call.bval

PairedQuery ==
  /\ IoQuery
  /\ ~call.cell.lvds
  /\ IsBound(bound, CompBel(call.bel))
  /\ ~bound[CompBel(call.bel)].lvds

\* C5 as stated: a non-LVDS cell whose paired bel holds a non-LVDS cell is
\* rejected when the pair mismatches on a needed clock net, and accepted
\* when there is no mismatch, no PLL conflict and a package pin.
C5_PairedAlways ==
  PairedQuery =>
    /\ NetMismatch(call.cell, bound[CompBel(call.bel)]) => ~call.bval
    /\ (/\ ~NetMismatch(call.cell, bound[CompBel(call.bel)])
        /\ ~PllDecides(call.cell, call.bel)
        /\ getBelPackagePin[call.bel] # "") => call.bval

\* C5 amended: when no PLL output pin settles the query, such a cell is
\* rejected iff the pair mismatches on a needed clock net or bel has no
\* package pin; when the first PLL output pin of the wire is in use and the
\* cell reads input data, it is accepted iff that PLL cell's BEL_PAD_INPUT
\* names bel, mismatch or not.
C5_PairedAfterPll ==
  PairedQuery =>
    IF PllDecides(call.cell, call.bel)
    THEN call.bval <=> NamesBel(call.bel, FirstPllPin(call.bel))
    ELSE ~call.bval <=>
           (\/ NetMismatch(call.cell, bound[CompBel(call.bel)])
            \/ getBelPackagePin[call.bel] = "")

C5_Witness ==
  /\ PairedQuery
  /\ ~PllDecides(call.cell, call.bel)
  /\ NeedsOut(call.cell.pintype)
  /\ NeedsOut(bound[CompBel(call.bel)].pintype)
  /\ call.cell.outclk = bound[CompBel(call.bel)].outclk
  /\ call.bval

\* C8: for a cell that reads input data, every PLL output pin on the wire
\* counts: the cell is rejected when one of them is in use, unless the PLL
\* cell's BEL_PAD_INPUT names bel, and then it is accepted.
C8_EveryPllPin ==
  (IoQuery /\ ReadsInput(call.cell)) =>
    LET used == {i \in PllPins(call.bel) : PllOutputUsed(call.bel, i)} IN
    /\ (used # {} /\ \A i \in used : ~NamesBel(call.bel, i)) => ~call.bval
    /\ (used # {} /\ \A i \in used : NamesBel(call.bel, i)) => call.bval

====
